---- MODULE Spec2Model ----
(***************************************************************************)
(* Model of dev/mock-geometry.py: the script that turns an armor record    *)
(* (piece id -> list of triangles) into a .geometry byte buffer plus the   *)
(* size/hash metadata of its content region.                               *)
(*                                                                         *)
(* Bytes are integers 0..255, buffers are sequences of bytes (index 1 is   *)
(* file offset 0).  Python ints are kept as sign + little-endian base-256  *)
(* magnitude so that values beyond 32 bits exist in the model.             *)
(***************************************************************************)
EXTENDS Integers, Sequences, FiniteSets, TLC

VARIABLES armor, pc, outfile, f, pos, data, idx,
          armorContentLengthPosition, sectionNamePositionMark,
          sectionNamePositionPosition, armorContentLengthMark,
          armorContentLength, sectionNamePosition,
          metadata, exc, decoded

vars == <<armor, pc, outfile, f, pos, data, idx,
          armorContentLengthPosition, sectionNamePositionMark,
          sectionNamePositionPosition, armorContentLengthMark,
          armorContentLength, sectionNamePosition,
          metadata, exc, decoded>>

(* ---------------------------------------------------------------- bounds *)
MaxPieces == 2
MaxTris == 1

(* ------------------------------------------------------- byte utilities *)
RECURSIVE Rep(_, _)
\* n * bytes, as in  20*b'\xff'
Rep(n, b) == IF n <= 0 THEN <<>> ELSE <<b>> \o Rep(n - 1, b)

RECURSIVE Pow2(_)
Pow2(n) == IF n = 0 THEN 1 ELSE 2 * Pow2(n - 1)

Slice(buf, from, len) == SubSeq(buf, from + 1, from + len)

RECURSIVE Strip(_)
\* canonical magnitude: no high-order zero digits
Strip(m) == IF m = <<>> THEN <<>>
            ELSE IF m[Len(m)] = 0 THEN Strip(SubSeq(m, 1, Len(m) - 1)) ELSE m

RECURSIVE MulAdd(_, _, _)
\* magnitude m * k + c on little-endian base-256 digits
MulAdd(m, k, c) ==
    IF m = <<>>
    THEN IF c = 0 THEN <<>> ELSE <<c % 256>> \o MulAdd(<<>>, k, c \div 256)
    ELSE LET t == Head(m) * k + c
         IN  <<t % 256>> \o MulAdd(Tail(m), k, t \div 256)

RECURSIVE ParseDigits(_, _)
ParseDigits(ds, acc) ==
    IF ds = <<>> THEN acc ELSE ParseDigits(Tail(ds), MulAdd(acc, 10, Head(ds)))

\* int(id): a JSON key (optional sign, decimal digits) to a Python int
int(key) == LET m == Strip(ParseDigits(key.digits, <<>>))
            IN  [neg |-> key.neg /\ m # <<>>, mag |-> m]

\* a small native number (len(...), a file position) as a Python int
PyInt(n) == [neg |-> n < 0,
             mag |-> Strip(MulAdd(<<>>, 1, IF n < 0 THEN -n ELSE n))]

OverflowError == "OverflowError"

\* n.to_bytes(4, ...) raises OverflowError when n is negative or needs more
\* than 4 bytes
Overflows(n) == n.neg \/ Len(n.mag) > 4

\* n.to_bytes(4, byteorder='little') of an n that fits
to_bytes(n) == n.mag \o Rep(4 - Len(n.mag), 0)

RECURSIVE Log2(_)
Log2(a) == IF a <= 1 THEN 0 ELSE 1 + Log2(a \div 2)

\* struct.pack('<f', x) for an integral x: IEEE-754 single precision,
\* round to nearest even, little-endian
PackF(x) ==
    IF x = 0 THEN <<0, 0, 0, 0>>
    ELSE LET s == IF x < 0 THEN 1 ELSE 0
             a == IF x < 0 THEN -x ELSE x
             k == Log2(a)
             sh == k - 23
             q0 == IF sh <= 0 THEN a * Pow2(-sh) ELSE a \div Pow2(sh)
             r == IF sh <= 0 THEN 0 ELSE a % Pow2(sh)
             half == IF sh <= 0 THEN 1 ELSE Pow2(sh - 1)
             up == sh > 0 /\ (r > half \/ (r = half /\ q0 % 2 = 1))
             q1 == IF up THEN q0 + 1 ELSE q0
             carry == q1 = Pow2(24)
             q == IF carry THEN Pow2(23) ELSE q1
             e == (IF carry THEN k + 1 ELSE k) + 127
             mant == q - Pow2(23)
         IN  <<mant % 256, (mant \div 256) % 256,
               (e % 2) * 128 + (mant \div 65536), s * 128 + (e \div 2)>>

\* the coordinates packed big-endian ('>fff')
PackVertexBigEndian(v) ==
    LET rev(b) == <<b[4], b[3], b[2], b[1]>>
    IN  rev(PackF(v[1])) \o rev(PackF(v[2])) \o rev(PackF(v[3]))

\* struct.pack('<fff', *vertex)
PackVertex(v) == PackF(v[1]) \o PackF(v[2]) \o PackF(v[3])

\* hashlib.md5(data).hexdigest(): the digest is kept as an uninterpreted,
\* collision-free function of the hashed bytes
Md5(bytes) == [md5of |-> bytes]

\* 'CM_PA_united.armor\u0000'.encode('latin-1')
SectionName == <<67, 77, 95, 80, 65, 95, 117, 110, 105, 116, 101, 100, 46,
                 97, 114, 109, 111, 114, 0>>

\* the length of the name without its terminator
SectionNameLengthUnterminated ==
    Len(<<67, 77, 95, 80, 65, 95, 117, 110, 105, 116,
          101, 100, 46, 97, 114, 109, 111, 114>>)

\* len('CM_PA_united.armor ')
SectionNameLengthField == Len(<<67, 77, 95, 80, 65, 95, 117, 110, 105, 116,
                                101, 100, 46, 97, 114, 109, 111, 114, 32>>)

(* ------------------------------------------------------------ file model *)
\* a file that appends every write, whatever the position
FWriteAppend(buf, p, bytes) == buf \o bytes

\* f.write(bytes) at position p of a file opened 'wb': overwrite, growing
\* the file when the write runs past its end
FWrite(buf, p, bytes) ==
    [i \in 1..(IF p + Len(bytes) > Len(buf) THEN p + Len(bytes) ELSE Len(buf))
        |-> IF i > p /\ i <= p + Len(bytes) THEN bytes[i - p] ELSE buf[i]]

(* -------------------------------------------------------------- inputs *)
\* JSON object keys used as piece ids
IdKeys == { [neg |-> FALSE, digits |-> <<1>>],
            [neg |-> FALSE, digits |-> <<2, 5, 8>>],
            [neg |-> FALSE, digits |-> <<4, 2, 9, 4, 9, 6, 7, 2, 9, 5>>],
            [neg |-> FALSE, digits |-> <<4, 2, 9, 4, 9, 6, 7, 2, 9, 6>>] }

\* triangles: 3 vertices of 3 single-precision-representable coordinates
Triangles == { << <<0, 0, 0>>, <<1, 0, 0>>, <<0, 1, 0>> >>,
               << <<-3, 5, 16777216>>, <<100, -1, 2>>, <<7, 0, -65536>> >> }

TriLists == UNION { [1..n -> Triangles] : n \in 0..MaxTris }

Pieces == [id : IdKeys, tris : TriLists]

\* an ordered mapping: the keys of a JSON object are distinct
Records == { r \in UNION { [1..n -> Pieces] : n \in 0..MaxPieces } :
               \A i, j \in 1..Len(r) : i # j => r[i].id # r[j].id }

RECURSIVE Flatten(_)
\* [vertex for tri in armor[id] for vertex in tri]
Flatten(tris) == IF tris = <<>> THEN <<>> ELSE Head(tris) \o Flatten(Tail(tris))

RECURSIVE VertexBytes(_)
\* the inner loop: 12 coordinate bytes and 4 bytes unknownC per vertex
VertexBytes(vs) ==
    IF vs = <<>> THEN <<>>
    ELSE PackVertex(Head(vs)) \o Rep(4, 255) \o VertexBytes(Tail(vs))

\* the triangle count written where the vertex count belongs
PieceBytesTriangleCount(p) ==
    LET vertices == Flatten(p.tris)
    IN  to_bytes(int(p.id)) \o Rep(24, 255)
        \o to_bytes(PyInt(Len(p.tris))) \o VertexBytes(vertices)

\* the bytes one iteration of the piece loop appends to data
PieceBytes(p) ==
    LET vertices == Flatten(p.tris)
    IN  to_bytes(int(p.id)) \o Rep(24, 255)
        \o to_bytes(PyInt(Len(vertices))) \o VertexBytes(vertices)

IdFits(p) == ~Overflows(int(p.id))

NoMetadata == [size |-> -1, hash |-> Md5(<<255>>), written |-> FALSE]

(* ------------------------------------------------------------- decoder *)
\* The decoder: the inverse of the encoder, reading the armor section
\* header the encoder writes at the pointed-to position before the content
\* region.

\* a 4-byte little-endian field as a Python int
ReadU32(buf, p) == [neg |-> FALSE, mag |-> Strip(Slice(buf, p, 4))]

\* counts are used as native numbers; one with the top bit set exceeds any
\* buffer and is reported as such
CountTooBig(n) == Len(n.mag) = 4 /\ n.mag[4] >= 128

RECURSIVE NatOfMag(_)
NatOfMag(m) == IF m = <<>> THEN 0 ELSE Head(m) + 256 * NatOfMag(Tail(m))

\* a little-endian single-precision float; integral values in range are
\* given as numbers, anything else by its bits
UnpackF(b) ==
    LET mant == b[1] + 256 * b[2] + 65536 * (b[3] % 128)
        e == (b[4] % 128) * 2 + (b[3] \div 128)
        s == b[4] \div 128
        sig == Pow2(23) + mant
        sh == e - 150
        other == [integral |-> FALSE, val |-> 0, bits |-> b]
        num(v) == [integral |-> TRUE, val |-> IF s = 1 THEN -v ELSE v,
                   bits |-> <<>>]
    IN  IF e = 0 /\ mant = 0 THEN num(0)
        ELSE IF e = 0 \/ e = 255 THEN other
        ELSE IF sh >= 0 THEN (IF sh > 7 THEN other ELSE num(sig * Pow2(sh)))
        ELSE IF -sh > 23 THEN other
        ELSE IF sig % Pow2(-sh) = 0 THEN num(sig \div Pow2(-sh))
        ELSE other

UnpackVertex(buf, p) ==
    <<UnpackF(Slice(buf, p, 4)), UnpackF(Slice(buf, p + 4, 4)),
      UnpackF(Slice(buf, p + 8, 4))>>

RECURSIVE DecodeVertices(_, _, _)
DecodeVertices(buf, p, n) ==
    IF n = 0 THEN <<>>
    ELSE <<UnpackVertex(buf, p)>> \o DecodeVertices(buf, p + 16, n - 1)

RECURSIVE Regroup(_)
\* the flattened vertex stream in fixed groups of 3
Regroup(vs) ==
    IF Len(vs) < 3 THEN <<>>
    ELSE <<SubSeq(vs, 1, 3)>> \o Regroup(SubSeq(vs, 4, Len(vs)))

RECURSIVE DecodePieces(_, _, _)
\* n pieces starting at p: [error, pieces, end]
DecodePieces(buf, p, n) ==
    IF n = 0 THEN [error |-> "none", pieces |-> <<>>, end |-> p]
    ELSE IF p + 32 > Len(buf)
    THEN [error |-> "TruncatedContent", pieces |-> <<>>, end |-> p]
    ELSE LET id == ReadU32(buf, p)
             nv == ReadU32(buf, p + 28)
             cnt == NatOfMag(nv.mag)
         IN  IF CountTooBig(nv) \/ p + 32 + 16 * cnt > Len(buf)
             THEN [error |-> "TruncatedContent", pieces |-> <<>>, end |-> p]
             ELSE IF cnt % 3 # 0
             THEN [error |-> "VertexCountNotMultipleOfThree",
                   pieces |-> <<>>, end |-> p]
             ELSE LET vs == DecodeVertices(buf, p + 32, cnt)
                      rest == DecodePieces(buf, p + 32 + 16 * cnt, n - 1)
                  IN  [error |-> rest.error,
                       pieces |-> <<[id |-> id, tris |-> Regroup(vs)]>>
                                  \o rest.pieces,
                       end |-> rest.end]

DecodeError(e) == [ok |-> FALSE, error |-> e, armor |-> <<>>,
                   size |-> -1, hash |-> Md5(<<255>>)]

NotDecoded == DecodeError("not run")

Decoder(buf) ==
    IF Len(buf) < 24 THEN DecodeError("MalformedHeader")
    ELSE LET blocks == ReadU32(buf, 20)
         IN
    IF blocks = PyInt(0)
    THEN [ok |-> TRUE, error |-> "none", armor |-> <<>>,
          size |-> 0, hash |-> Md5(<<>>)]
    ELSE IF blocks # PyInt(1) \/ Len(buf) < 68
    THEN DecodeError("MalformedHeader")
    ELSE LET ptr == ReadU32(buf, 64) IN
    IF CountTooBig(ptr) \/ NatOfMag(ptr.mag) + 24 + 40 > Len(buf)
    THEN DecodeError("TruncatedContent")
    ELSE LET section == NatOfMag(ptr.mag)
             stored == ReadU32(buf, section)
             start == section + 24
             np == ReadU32(buf, start + 36)
         IN
    IF CountTooBig(np) THEN DecodeError("TruncatedContent")
    ELSE LET got == DecodePieces(buf, start + 40, NatOfMag(np.mag)) IN
    IF got.error # "none" THEN DecodeError(got.error)
    ELSE IF stored # PyInt(got.end - start)
    THEN DecodeError("LengthMismatch")
    ELSE [ok |-> TRUE, error |-> "none", armor |-> got.pieces,
          size |-> got.end - start,
          hash |-> Md5(Slice(buf, start, got.end - start))]

(* ---------------------------------------------------------------- Init *)
Init ==
    /\ armor \in Records
    /\ pc = "start"
    /\ outfile = "absent"
    /\ f = <<>>
    /\ pos = 0
    /\ data = <<>>
    /\ idx = 0
    /\ armorContentLengthPosition = -1
    /\ sectionNamePositionMark = -1
    /\ sectionNamePositionPosition = -1
    /\ armorContentLengthMark = -1
    /\ armorContentLength = -1
    /\ sectionNamePosition = -1
    /\ metadata = NoMetadata
    /\ exc = "none"
    /\ decoded = NotDecoded

(* ------------------------------------------------------------- actions *)
\* lines 21-22: open the output file and write the 20 fill bytes
OpenOut ==
    /\ pc = "start"
    /\ outfile' = "open"
    /\ f' = FWrite(<<>>, 0, Rep(20, 255))
    /\ pos' = 20
    /\ pc' = "branch"
    /\ UNCHANGED <<armor, data, idx, armorContentLengthPosition,
                   sectionNamePositionMark, sectionNamePositionPosition,
                   armorContentLengthMark, armorContentLength,
                   sectionNamePosition, metadata, exc, decoded>>

\* lines 24-31 with the armor section position written at line 28 left open
EmptyArmorWith(pointer) ==
    /\ pc = "branch"
    /\ Len(armor) = 0
    /\ LET b1 == to_bytes(PyInt(0))
           f1 == FWrite(f, pos, b1)
           p1 == pos + Len(b1)
           b2 == Rep(64 - p1, 255)
           f2 == FWrite(f1, p1, b2)
           p2 == p1 + Len(b2)
           b3 == to_bytes(PyInt(pointer))
       IN  /\ f' = FWrite(f2, p2, b3)
           /\ pos' = p2 + Len(b3)
    /\ armorContentLength' = 0
    /\ data' = <<>>
    /\ pc' = "close"
    /\ UNCHANGED <<armor, outfile, idx, armorContentLengthPosition,
                   sectionNamePositionMark, sectionNamePositionPosition,
                   armorContentLengthMark, sectionNamePosition,
                   metadata, exc, decoded>>

\* the empty branch pointing at an armor section as the other branch does
EmptyArmorPointing == EmptyArmorWith(96)

\* lines 24-31: no armor pieces
EmptyArmor == EmptyArmorWith(0)

\* lines 34-45 with the padding target of line 45 left open
WriteHeaderWith(sectionStart) ==
    /\ pc = "branch"
    /\ Len(armor) # 0
    /\ LET b1 == to_bytes(PyInt(1))
           f1 == FWrite(f, pos, b1)
           p1 == pos + Len(b1)
           b2 == Rep(64 - p1, 255)
           f2 == FWrite(f1, p1, b2)
           p2 == p1 + Len(b2)
           b3 == to_bytes(PyInt(96)) \o Rep(4, 0)
           f3 == FWrite(f2, p2, b3)
           p3 == p2 + Len(b3)
           b4 == Rep(sectionStart - p3, 255)
       IN  /\ f' = FWrite(f3, p3, b4)
           /\ pos' = p3 + Len(b4)
    /\ pc' = "section"
    /\ UNCHANGED <<armor, outfile, data, idx, armorContentLengthPosition,
                   sectionNamePositionMark, sectionNamePositionPosition,
                   armorContentLengthMark, armorContentLength,
                   sectionNamePosition, metadata, exc, decoded>>

\* the armor section started right after the pointer and its zeros
WriteHeaderUnpadded == WriteHeaderWith(72)

\* lines 34-45: block count 1, pointer 0x60, padding up to 0x60
WriteHeader == WriteHeaderWith(96)

\* lines 49-65: the armor section header with its two reserved slots
SectionHeader ==
    /\ pc = "section"
    /\ armorContentLengthPosition' = pos
    /\ sectionNamePositionMark' = pos + 8
    /\ sectionNamePositionPosition' = pos + 16
    /\ f' = FWrite(f, pos,
                   Rep(4, 0) \o Rep(4, 0)
                   \o to_bytes(PyInt(SectionNameLengthField)) \o Rep(4, 0)
                   \o Rep(4, 0) \o Rep(4, 0))
    /\ pos' = pos + 24
    /\ pc' = "content"
    /\ UNCHANGED <<armor, outfile, data, idx, armorContentLengthMark,
                   armorContentLength, sectionNamePosition,
                   metadata, exc, decoded>>

\* lines 68-73: start the separately buffered content region
BeginContent ==
    /\ pc = "content"
    /\ armorContentLengthMark' = pos
    /\ data' = Rep(36, 255) \o to_bytes(PyInt(Len(armor)))
    /\ idx' = 1
    /\ pc' = "piece"
    /\ UNCHANGED <<armor, outfile, f, pos, armorContentLengthPosition,
                   sectionNamePositionMark, sectionNamePositionPosition,
                   armorContentLength, sectionNamePosition,
                   metadata, exc, decoded>>

\* lines 74-91: one iteration of the loop over armor.keys()
EncodePiece ==
    /\ pc = "piece"
    /\ idx <= Len(armor)
    /\ IdFits(armor[idx])
    /\ data' = data \o PieceBytes(armor[idx])
    /\ idx' = idx + 1
    /\ UNCHANGED <<armor, pc, outfile, f, pos, armorContentLengthPosition,
                   sectionNamePositionMark, sectionNamePositionPosition,
                   armorContentLengthMark, armorContentLength,
                   sectionNamePosition, metadata, exc, decoded>>

\* line 79 raising: the exception leaves the with block (the file is
\* flushed and closed with what was written so far) and ends the script
EncodePieceRaise ==
    /\ pc = "piece"
    /\ idx <= Len(armor)
    /\ ~IdFits(armor[idx])
    /\ exc' = OverflowError
    /\ outfile' = "closed"
    /\ pc' = "failed"
    /\ UNCHANGED <<armor, f, pos, data, idx, armorContentLengthPosition,
                   sectionNamePositionMark, sectionNamePositionPosition,
                   armorContentLengthMark, armorContentLength,
                   sectionNamePosition, metadata, decoded>>

\* lines 94-97 with the mark the length is counted from left open
WriteContentFrom(mark) ==
    /\ pc = "piece"
    /\ idx > Len(armor)
    /\ f' = FWrite(f, pos, data)
    /\ pos' = pos + Len(data)
    /\ armorContentLength' = (pos + Len(data)) - mark
    /\ sectionNamePosition' = pos + Len(data)
    /\ pc' = "name"
    /\ UNCHANGED <<armor, outfile, data, idx, armorContentLengthPosition,
                   sectionNamePositionMark, sectionNamePositionPosition,
                   armorContentLengthMark, metadata, exc, decoded>>

\* the length counted from the start of the armor section header
WriteContentFromHeader == WriteContentFrom(armorContentLengthPosition)

\* lines 94-97: write the content region, take its length and the position
\* of the section name
WriteContent == WriteContentFrom(armorContentLengthMark)

\* line 100
WriteSectionName ==
    /\ pc = "name"
    /\ f' = FWrite(f, pos, SectionName)
    /\ pos' = pos + Len(SectionName)
    /\ pc' = "patchLength"
    /\ UNCHANGED <<armor, outfile, data, idx, armorContentLengthPosition,
                   sectionNamePositionMark, sectionNamePositionPosition,
                   armorContentLengthMark, armorContentLength,
                   sectionNamePosition, metadata, exc, decoded>>

\* lines 102-103: seek back and fill in armorContentLength
PatchContentLength ==
    /\ pc = "patchLength"
    /\ f' = FWrite(f, armorContentLengthPosition,
                   to_bytes(PyInt(armorContentLength)))
    /\ pos' = armorContentLengthPosition + 4
    /\ pc' = "patchPosition"
    /\ UNCHANGED <<armor, outfile, data, idx, armorContentLengthPosition,
                   sectionNamePositionMark, sectionNamePositionPosition,
                   armorContentLengthMark, armorContentLength,
                   sectionNamePosition, metadata, exc, decoded>>

\* lines 105-106 with the base the position is counted from left open
PatchSectionNamePositionFrom(base) ==
    /\ pc = "patchPosition"
    /\ f' = FWrite(f, sectionNamePositionPosition,
                   to_bytes(PyInt(sectionNamePosition - base)))
    /\ pos' = sectionNamePositionPosition + 4
    /\ pc' = "close"
    /\ UNCHANGED <<armor, outfile, data, idx, armorContentLengthPosition,
                   sectionNamePositionMark, sectionNamePositionPosition,
                   armorContentLengthMark, armorContentLength,
                   sectionNamePosition, metadata, exc, decoded>>

\* the absolute position written instead of the relative one
PatchSectionNamePositionAbsolute == PatchSectionNamePositionFrom(0)

\* lines 105-106: seek back and fill in sectionNamePosition
PatchSectionNamePosition ==
    PatchSectionNamePositionFrom(sectionNamePositionMark)

\* end of the with block, then lines 109-117, with the hashed bytes left open
WriteMetadataOf(hashed) ==
    /\ pc = "close"
    /\ outfile' = "closed"
    /\ metadata' = [size |-> armorContentLength, hash |-> Md5(hashed),
                    written |-> TRUE]
    /\ pc' = "done"
    /\ UNCHANGED <<armor, f, pos, data, idx, armorContentLengthPosition,
                   sectionNamePositionMark, sectionNamePositionPosition,
                   armorContentLengthMark, armorContentLength,
                   sectionNamePosition, exc, decoded>>

\* the whole file hashed instead of the content region
WriteMetadataOfFile == WriteMetadataOf(f)

\* end of the with block, then lines 109-117: the metadata
WriteMetadata == WriteMetadataOf(data)

\* the consumer of the finished file decodes it
Decode ==
    /\ pc = "done"
    /\ decoded' = Decoder(f)
    /\ pc' = "decoded"
    /\ UNCHANGED <<armor, outfile, f, pos, data, idx,
                   armorContentLengthPosition, sectionNamePositionMark,
                   sectionNamePositionPosition, armorContentLengthMark,
                   armorContentLength, sectionNamePosition, metadata, exc>>

Next ==
    \/ OpenOut
    \/ EmptyArmor
    \/ WriteHeader
    \/ SectionHeader
    \/ BeginContent
    \/ EncodePiece
    \/ EncodePieceRaise
    \/ WriteContent
    \/ WriteSectionName
    \/ PatchContentLength
    \/ PatchSectionNamePosition
    \/ WriteMetadata
    \/ Decode

Spec == Init /\ [][Next]_vars

(* ================================================================ claims *)
Finished == pc \in {"done", "decoded"}

NonEmptyDone == Finished /\ Len(armor) > 0

\* where the section name starts in a finished non-empty buffer: right after
\* the content region, which starts 24 bytes into the armor section at 0x60
NameStart == 96 + 24 + metadata.size

RECURSIVE VertexTotal(_)
VertexTotal(r) ==
    IF r = <<>> THEN 0 ELSE Len(Flatten(Head(r).tris)) + VertexTotal(Tail(r))

\* offset of piece i in the content region, by the layout formula
PieceOffset(r, i) == 40 + 32 * (i - 1) + 16 * VertexTotal(SubSeq(r, 1, i - 1))

\* C1: a record with zero pieces encodes to exactly 68 bytes (20 x 0xFF,
\* count 0, 0xFF up to 0x40, pointer 0) with no content region and no
\* section name, and metadata size 0, hash md5 of the empty byte string.
C1_EmptyShape ==
    (Finished /\ Len(armor) = 0) =>
        /\ Len(f) = 68
        /\ \A i \in 0..19 : f[i + 1] = 255
        /\ Slice(f, 20, 4) = <<0, 0, 0, 0>>
        /\ \A i \in 24..63 : f[i + 1] = 255
        /\ Slice(f, 64, 4) = <<0, 0, 0, 0>>
        /\ data = <<>>
        /\ metadata.written
        /\ metadata.size = 0
        /\ metadata.hash = Md5(<<>>)

C1_Witness == pc = "done" /\ Len(armor) = 0 /\ Len(f) = 68 /\ metadata.written

\* C2: for a non-empty record metadata.size is the byte length of the
\* separately buffered content region, and metadata.hash is the digest of
\* the bytes of the finished buffer from the content region's start
\* (24 bytes into the armor section) for metadata.size bytes.
C2_MetadataCorrect ==
    NonEmptyDone =>
        /\ metadata.size = Len(data)
        /\ armorContentLengthMark = 96 + 24
        /\ armorContentLengthMark + metadata.size <= Len(f)
        /\ Slice(f, armorContentLengthMark, metadata.size) = data
        /\ metadata.hash
             = Md5(Slice(f, armorContentLengthMark, metadata.size))

C2_Witness ==
    /\ pc = "done" /\ Len(armor) = 2
    /\ \E i \in 1..2 : Len(armor[i].tris) > 0
    /\ metadata.size = Len(data)

\* C3: in the finished buffer of a non-empty record the contentLength field
\* at 0x60 reads metadata.size, and the sectionNamePosition field at 0x70
\* reads the distance from the first byte of the section-name-length field
\* (0x68) to the first byte of the section-name bytes.
C3_BackPatch ==
    NonEmptyDone =>
        /\ ReadU32(f, 96) = PyInt(metadata.size)
        /\ Slice(f, NameStart, Len(f) - NameStart) = SectionName
        /\ ReadU32(f, 112) = PyInt(NameStart - 104)

C3_Witness ==
    /\ pc = "done" /\ Len(armor) > 0
    /\ ReadU32(f, 96) # PyInt(0)
    /\ ReadU32(f, 112) # PyInt(0)

\* a coordinate as the decoder reports it
AsDecoded(x) == [integral |-> TRUE, val |-> x, bits |-> <<>>]

\* a piece of the input as the decoder should give it back
ExpectedPiece(p) ==
    [id |-> int(p.id),
     tris |-> Regroup([k \in 1..Len(Flatten(p.tris)) |->
                         [c \in 1..3 |-> AsDecoded(Flatten(p.tris)[k][c])]])]

\* C4: decoding the encoded bytes gives back the piece ids in order, each
\* piece's flattened vertex sequence regrouped in threes, and the same
\* size/hash metadata, for records of zero or more pieces.
C4_RoundTrip ==
    pc = "decoded" =>
        /\ decoded.ok
        /\ Len(decoded.armor) = Len(armor)
        /\ \A i \in 1..Len(armor) : decoded.armor[i] = ExpectedPiece(armor[i])
        /\ decoded.size = metadata.size
        /\ decoded.hash = metadata.hash

C4_Witness ==
    /\ pc = "decoded" /\ decoded.ok
    /\ Len(decoded.armor) = 2
    /\ \E i \in 1..2 : Len(decoded.armor[i].tris) > 0

\* C5 as stated: the section name written after the content region is 20
\* bytes and the section-name-length field holds 20.
C5_NameIsTwentyBytes ==
    NonEmptyDone =>
        /\ Len(f) - sectionNamePosition = 20
        /\ ReadU32(f, 104) = PyInt(20)

\* C5 amended: the section name written after the content region is the 18
\* characters "CM_PA_united.armor" and one NUL byte, 19 bytes, and the
\* section-name-length field holds 19, the number of bytes written.
C5_NameIsNineteenBytes ==
    NonEmptyDone =>
        /\ Len(f) - sectionNamePosition = 19
        /\ Slice(f, sectionNamePosition, 19) = SectionName
        /\ SectionName[19] = 0
        /\ ReadU32(f, 104) = PyInt(19)
        /\ ReadU32(f, 104) = PyInt(Len(f) - sectionNamePosition)

C5_Witness ==
    /\ pc = "done" /\ Len(armor) > 0
    /\ Len(f) = sectionNamePosition + Len(SectionName)

\* C6: the metadata is (size 0, hash of the empty byte string) exactly when
\* the record has no pieces; a non-empty record, also one whose pieces have
\* no triangles, has size > 0.
C6_EmptyIff ==
    Finished =>
        /\ (metadata.size = 0 /\ metadata.hash = Md5(<<>>)) <=> Len(armor) = 0
        /\ Len(armor) > 0 => metadata.size > 0

C6_Witness ==
    /\ pc = "done" /\ Len(armor) > 0
    /\ \A i \in 1..Len(armor) : armor[i].tris = <<>>
    /\ metadata.size > 0

\* C7: when a piece id does not fit in 32 bits unsigned, the failed run
\* reports an error and leaves neither a partly written output buffer nor
\* metadata behind.
C7_NoPartialOutput ==
    pc = "failed" =>
        /\ exc = OverflowError
        /\ ~metadata.written
        /\ (outfile = "absent" \/ f = <<>>)

\* C8: the content region of a non-empty record with P pieces and V
\* vertices is 36 x 0xFF, the count P, and per piece its id, 24 x 0xFF, the
\* vertex count (3 per triangle) and per vertex 12 coordinate bytes and
\* 4 x 0xFF; its length is 40 + 32*P + 16*V.
C8_ContentLayout ==
    NonEmptyDone =>
        /\ Len(data) = 40 + 32 * Len(armor) + 16 * VertexTotal(armor)
        /\ \A i \in 1..36 : data[i] = 255
        /\ ReadU32(data, 36) = PyInt(Len(armor))
        /\ \A i \in 1..Len(armor) :
             LET o == PieceOffset(armor, i)
                 vs == Flatten(armor[i].tris)
             IN  /\ ReadU32(data, o) = int(armor[i].id)
                 /\ \A j \in 4..27 : data[o + j + 1] = 255
                 /\ ReadU32(data, o + 28) = PyInt(3 * Len(armor[i].tris))
                 /\ \A k \in 1..Len(vs) :
                      LET q == o + 32 + 16 * (k - 1)
                      IN  /\ Slice(data, q, 4) = PackF(vs[k][1])
                          /\ Slice(data, q + 4, 4) = PackF(vs[k][2])
                          /\ Slice(data, q + 8, 4) = PackF(vs[k][3])
                          /\ Slice(data, q + 12, 4) = <<255, 255, 255, 255>>

C8_Witness ==
    /\ pc = "done" /\ Len(armor) = 1
    /\ Len(armor[1].tris) = 1
    /\ Len(data) = 120
    /\ ReadU32(data, 36) = PyInt(1)
    /\ ReadU32(data, 68) = PyInt(3)

\* C9: the first 0x60 bytes of a non-empty record's buffer are fixed:
\* 20 x 0xFF, block count 1, 0xFF up to 0x40, pointer 0x60, 4 zero bytes,
\* 0xFF up to 0x60, where the armor section header begins.
C9_FixedPrefix ==
    NonEmptyDone =>
        /\ \A i \in 0..19 : f[i + 1] = 255
        /\ Slice(f, 20, 4) = <<1, 0, 0, 0>>
        /\ \A i \in 24..63 : f[i + 1] = 255
        /\ Slice(f, 64, 4) = <<96, 0, 0, 0>>
        /\ Slice(f, 68, 4) = <<0, 0, 0, 0>>
        /\ \A i \in 72..95 : f[i + 1] = 255
        /\ armorContentLengthPosition = 96
        /\ NatOfMag(ReadU32(f, 64).mag) = armorContentLengthPosition

C9_Witness ==
    /\ pc = "done" /\ Len(armor) = 2
    /\ armor[1] # armor[2]
    /\ Slice(f, 64, 4) = <<96, 0, 0, 0>>

ContentLengthSlot == 97..100

SectionNamePositionSlot == 113..116

\* C10: the two back-patch steps change only the 4 bytes of the
\* contentLength slot and the 4 bytes of the sectionNamePosition slot; the
\* buffer keeps its length, header + content region + section name past
\* 0x60, and the section name stays its last bytes.
C10_PatchFrame ==
    [][ (pc \in {"patchLength", "patchPosition"}) =>
          /\ Len(f') = Len(f)
          /\ Len(f') = 96 + 24 + Len(data) + Len(SectionName)
          /\ \A i \in 1..Len(f) :
               f'[i] # f[i] =>
                 i \in (IF pc = "patchLength" THEN ContentLengthSlot
                        ELSE SectionNamePositionSlot)
          /\ SubSeq(f', Len(f') - Len(SectionName) + 1, Len(f')) = SectionName
      ]_vars

C10_Witness ==
    /\ pc = "close" /\ Len(armor) > 0
    /\ ReadU32(f, 96) # PyInt(0)
    /\ ReadU32(f, 112) # PyInt(0)
    /\ Len(f) = 96 + 24 + Len(data) + Len(SectionName)

====
